---- MODULE Spec2Model ----
(***************************************************************************)
(* Notification delivery engine of the E-fako backend.                     *)
(*                                                                         *)
(* The model follows backend/app/services/notification_service.py          *)
(* (NotificationService and the two celery sweeps), the Notification and   *)
(* NotificationDevice tables of backend/app/models/notification.py and the *)
(* presence registry of backend/app/services/socketio_service.py.          *)
(*                                                                         *)
(* Every task (a request handler or a celery sweep run) works on its own   *)
(* ORM copies of the rows it loaded; the store is only changed by a        *)
(* commit, which writes the attributes the task changed on its copy.       *)
(***************************************************************************)
EXTENDS Integers, Sequences, FiniteSets, TLC

\* ---- bounds of the model ----
MaxNotifs == 1
MaxTicks == 2
MaxTasks == 2
MaxSchedDelay == 1

\* ---- program constants ----
max_retries_default == 3
\* timedelta(minutes=5) before the next attempt
RetryDelay == 5
\* crontab(minute='*/5'): the clock is observed once per retry period
RetryPeriod == 5

NULL == -1

Users == {"U1", "U2"}
\* the users the dispatch specification creates notifications for
Owners == {"U1"}
Tokens == {"t1"}
Sids == {"s1", "s2"}
TaskIds == 1..MaxTasks

NoDevice == [user_id |-> "none", is_active |-> FALSE]
NoUser == "none"

VARIABLES
    now,            \* datetime.utcnow(), in minutes
    notifications,  \* table notifications: sequence of rows, id = index
    devices,        \* table notification_devices: device_token -> row
    connected_users,\* SocketIOService.connected_users: sid -> user id
    rooms,          \* room memberships kept by the socket server: sid -> rooms
    tasks,          \* running handlers / sweep runs and their ORM copies
    users           \* table users: user id -> role and is_active

vars == <<now, notifications, devices, connected_users, rooms, tasks, users>>

\* ---- rows ----
NewNotification(user_id, scheduled_at) ==
    [user_id |-> user_id,
     status |-> "PENDING",
     is_read |-> FALSE,
     scheduled_at |-> scheduled_at,
     sent_at |-> NULL,
     read_at |-> NULL,
     retry_count |-> 0,
     max_retries |-> max_retries_default,
     next_retry_at |-> NULL]

\* the ORM copy of a row a task holds: the columns send_notification
\* assigns (user_id and max_retries never change, they are read from the row)
DispatchColumns == {"status", "retry_count", "next_retry_at", "sent_at"}

NoObj == [f \in DispatchColumns |-> NULL]
NoCopy == [id |-> 0, obj |-> NoObj]

\* a task: the handler or sweep run (kind), the rows it still has to send
\* (queue), the row send_notification is working on (cur), where it is in
\* send_notification (pc) and what the call saw: the gateway outcome (gw,
\* success), the emit outcome (emit), the outcome of the commit of the
\* try block and of the except branch, and what the call returned
\* the arguments of a device or presence handler (arg): the calling user,
\* the device token, the session id, and whether the handler's select found
\* a row
NoArg == [user_id |-> "none", device_token |-> "none", sid |-> "none", found |-> FALSE,
          token |-> "none"]

IdleTask ==
    [kind |-> "idle", pc |-> "idle", queue |-> <<>>, cur |-> NoCopy,
     success |-> 0, gw |-> "none", emit |-> "none",
     commit |-> "none", handler_commit |-> "none", result |-> "none",
     arg |-> NoArg, created |-> {}, sent |-> <<>>,
     step |-> 0, observers |-> {}]

NotifIds == 1..Len(notifications)

\* ---- queries ----
UserRoom(user_id) == "user_" \o user_id

\* select(NotificationDevice).where(user_id == user.id, is_active == True)
ActiveDeviceTokens(user_id) ==
    {tk \in Tokens : devices[tk].user_id = user_id /\ devices[tk].is_active}

\* sessions currently in a room of the socket server
RoomMembers(room) == {sid \in Sids : room \in rooms[sid]}

RECURSIVE SetToSeq(_)
SetToSeq(S) ==
    IF S = {} THEN <<>>
    ELSE LET m == CHOOSE x \in S : \A y \in S : x <= y
         IN <<m>> \o SetToSeq(S \ {m})

CopyOf(id) == [id |-> id, obj |-> [f \in DispatchColumns |-> notifications[id][f]]]

LoadCopies(ids) == [i \in 1..Cardinality(ids) |-> CopyOf(SetToSeq(ids)[i])]

ScheduledDue_any_time ==
    {id \in NotifIds :
        /\ notifications[id].scheduled_at # NULL
        /\ notifications[id].status = "PENDING"}

\* rows selected by process_scheduled_notifications
ScheduledDue ==
    {id \in NotifIds :
        /\ notifications[id].scheduled_at # NULL
        /\ notifications[id].scheduled_at <= now
        /\ notifications[id].status = "PENDING"}

\* rows selected by retry_failed_notifications
RetryDue ==
    {id \in NotifIds :
        /\ notifications[id].status = "FAILED"
        /\ notifications[id].retry_count < notifications[id].max_retries
        /\ notifications[id].next_retry_at # NULL
        /\ notifications[id].next_retry_at <= now}

\* ---- send_notification: assignments on the task's copy ----
SentSuccessfully_strict(success) == success > 1

\* line 237: sent_successfully = result.get('success', 0) > 0
SentSuccessfully(success) == success > 0

\* lines 255-256
MarkSent(obj, t) == [obj EXCEPT !.status = "SENT", !.sent_at = t]

MarkFailed_no_backoff(obj, max_retries, t) ==
    [obj EXCEPT !.status = "FAILED", !.retry_count = obj.retry_count + 1]

\* lines 258-263 and 281-285: the failure transition
MarkFailed(obj, max_retries, t) ==
    LET rc == obj.retry_count + 1 IN
    [obj EXCEPT !.status = "FAILED",
                !.retry_count = rc,
                !.next_retry_at = IF rc < max_retries THEN t + RetryDelay ELSE @]

\* db.commit(): the UPDATE carries the attributes whose value on the copy
\* differs from the value the copy was loaded with
Flush(row, loaded, obj) ==
    [f \in DOMAIN row |->
        IF f \in DispatchColumns /\ obj[f] # loaded[f] THEN obj[f] ELSE row[f]]

\* the role column of the users table (it is not changed by the model)
Role(user_id) == IF user_id = "U2" THEN "admin" ELSE "user"

Init ==
    /\ now = 0
    /\ notifications = <<>>
    /\ devices = [tk \in Tokens |-> NoDevice]
    /\ connected_users = [sid \in Sids |-> NoUser]
    /\ rooms = [sid \in Sids |-> {}]
    /\ tasks = [t \in TaskIds |-> IdleTask]
    /\ users = [u \in Users |-> [role |-> Role(u), is_active |-> TRUE]]

\* ---- tasks ----
\* a new handler or sweep run takes the first free task slot
FreeTask(t) ==
    /\ tasks[t].kind = "idle"
    /\ \A t2 \in TaskIds : t2 < t => tasks[t2].kind # "idle"

OwnerOf(t) == notifications[tasks[t].cur.id].user_id
MaxRetriesOf(t) == notifications[tasks[t].cur.id].max_retries

\* the ids of a list of copies
IdsOf(copies) == {copies[i].id : i \in DOMAIN copies}

StartTask_head_only(kind, copies) ==
    IF copies = <<>> THEN IdleTask
    ELSE [IdleTask EXCEPT !.kind = kind, !.pc = "push",
                          !.cur = Head(copies), !.queue = <<>>,
                          !.created = IdsOf(copies)]

\* a handler or sweep run that has to call send_notification for the copies:
\* the list it loops over (created: the records the handler built or the
\* sweep loaded) and the calls of send_notification that ended (sent)
StartTask(kind, copies) ==
    IF copies = <<>> THEN IdleTask
    ELSE [IdleTask EXCEPT !.kind = kind, !.pc = "push",
                          !.cur = Head(copies), !.queue = Tail(copies),
                          !.created = IdsOf(copies)]

\* send_notification returns (or raises): a commit that succeeded wrote the
\* copy to the store; the task keeps what the call saw until its caller
\* goes on
Return(t, obj, commit, handler_commit, result) ==
    LET c == tasks[t].cur
        post == IF handler_commit = "raise" THEN notifications[c.id]
                ELSE Flush(notifications[c.id], c.obj, obj)
    IN
    /\ notifications' = [notifications EXCEPT ![c.id] = post]
    /\ tasks' = [tasks EXCEPT ![t].pc = "done", ![t].commit = commit,
                              ![t].handler_commit = handler_commit,
                              ![t].result = result,
                              ![t].sent = Append(@, c.id)]
    /\ UNCHANGED <<now, devices, connected_users, rooms, users>>

\* the caller of send_notification after the call: the loops of the sweeps
\* go on with the next loaded row, an exception ends the handler or the run
AfterSend(t) ==
    /\ tasks[t].pc = "done"
    /\ tasks' = [tasks EXCEPT ![t] =
                    IF @.result \in {"StoreError", "ChannelError"} \/ @.queue = <<>>
                    THEN IdleTask
                    ELSE [StartTask(@.kind, @.queue) EXCEPT
                             !.created = tasks[t].created, !.sent = tasks[t].sent]]
    /\ UNCHANGED <<now, notifications, devices, connected_users, rooms, users>>

Caught_reraise(t, gw, emit) ==
    /\ tasks' = [tasks EXCEPT ![t].pc = "done", ![t].gw = gw, ![t].emit = emit,
                              ![t].result = "ChannelError"]
    /\ UNCHANGED <<now, notifications, devices, connected_users, rooms, users>>

\* an exception inside the try block of send_notification: control moves
\* to the except branch
Caught(t, gw, emit) ==
    /\ tasks' = [tasks EXCEPT ![t].pc = "except", ![t].gw = gw, ![t].emit = emit]
    /\ UNCHANGED <<now, notifications, devices, connected_users, rooms, users>>

\* ---- NotificationService.create_notification ----
create_notification(t, user_id, scheduled_at) ==
    /\ FreeTask(t)
    /\ Len(notifications) < MaxNotifs
    /\ LET row == NewNotification(user_id, scheduled_at)
           id == Len(notifications) + 1
       IN /\ notifications' = Append(notifications, row)
          /\ tasks' = IF scheduled_at = NULL
                      THEN [tasks EXCEPT ![t] =
                               StartTask("create",
                                   <<[id |-> id, obj |-> [f \in DispatchColumns |-> row[f]]]>>)]
                      ELSE tasks
    /\ UNCHANGED <<now, devices, connected_users, rooms, users>>

\* ---- NotificationService.send_notification, step by step ----
\* fcm.notify_multiple_devices replies with a success count
SendGatewayReply(t, success) ==
    /\ tasks[t].pc = "push"
    /\ ActiveDeviceTokens(OwnerOf(t)) # {}
    /\ success \in 0..Cardinality(ActiveDeviceTokens(OwnerOf(t)))
    /\ tasks' = [tasks EXCEPT ![t].pc = "emit", ![t].gw = "reply", ![t].success = success]
    /\ UNCHANGED <<now, notifications, devices, connected_users, rooms, users>>

\* fcm.notify_multiple_devices raises
SendGatewayRaise(t) ==
    /\ tasks[t].pc = "push"
    /\ ActiveDeviceTokens(OwnerOf(t)) # {}
    /\ Caught(t, "raise", "none")

\* line 212: with no active device the gateway is not called and the call
\* goes on with the emit (sent_successfully stays False, success stays 0)
AtEmit(t) ==
    \/ tasks[t].pc = "emit"
    \/ tasks[t].pc = "push" /\ ActiveDeviceTokens(OwnerOf(t)) = {}

\* socket_service.broadcast_notification -> sio.emit(room=user_<id>)
SendEmit(t) ==
    /\ AtEmit(t)
    /\ tasks' = [tasks EXCEPT ![t].pc = "commit", ![t].emit = "ok"]
    /\ UNCHANGED <<now, notifications, devices, connected_users, rooms, users>>

\* the emit raises while delivering to a session of the room
SendEmitRaise(t) ==
    /\ AtEmit(t)
    /\ RoomMembers(UserRoom(OwnerOf(t))) # {}
    /\ Caught(t, tasks[t].gw, "raise")

\* lines 253-263: the status update of the try block
StatusUpdate(t) ==
    IF SentSuccessfully(tasks[t].success)
    THEN MarkSent(tasks[t].cur.obj, now)
    ELSE MarkFailed(tasks[t].cur.obj, MaxRetriesOf(t), now)

\* lines 253-275: status update and commit, the commit succeeds
SendCommit(t) ==
    /\ tasks[t].pc = "commit"
    /\ Return(t, StatusUpdate(t), "ok", "none",
              IF SentSuccessfully(tasks[t].success) THEN "True" ELSE "False")

\* lines 277-298: the except branch marks the copy failed and commits; an
\* exception of this commit leaves send_notification. The branch also runs
\* when the commit of line 265 raised: the copy then already carries the
\* status update of lines 253-263, and the commit of line 287 is a call of
\* its own that succeeds or raises
Handler(t, obj, commit, handler_ok) ==
    IF handler_ok
    THEN Return(t, MarkFailed(obj, MaxRetriesOf(t), now), commit, "ok", "False")
    ELSE Return(t, MarkFailed(obj, MaxRetriesOf(t), now), commit, "raise", "StoreError")

\* lines 253-265 then 277-298: the commit of the try block raises
SendCommitRaise(t, handler_ok) ==
    /\ tasks[t].pc = "commit"
    /\ Handler(t, StatusUpdate(t), "raise", handler_ok)

\* lines 277-298 after a channel exception
SendExcept(t, handler_ok) ==
    /\ tasks[t].pc = "except"
    /\ Handler(t, tasks[t].cur.obj, "none", handler_ok)

\* ---- the celery sweeps ----
process_scheduled_notifications(t) ==
    /\ FreeTask(t)
    /\ ScheduledDue # {}
    /\ tasks' = [tasks EXCEPT ![t] = StartTask("scheduled", LoadCopies(ScheduledDue))]
    /\ UNCHANGED <<now, notifications, devices, connected_users, rooms, users>>

retry_failed_notifications(t) ==
    /\ FreeTask(t)
    /\ RetryDue # {}
    /\ tasks' = [tasks EXCEPT ![t] = StartTask("retry", LoadCopies(RetryDue))]
    /\ UNCHANGED <<now, notifications, devices, connected_users, rooms, users>>

\* ---- NotificationService.mark_as_read ----
SelectedForRead_any_owner(table, notification_ids, user_id) ==
    {id \in DOMAIN table : id \in notification_ids}

\* lines 309-317: the rows of the user among the given ids
SelectedForRead(table, notification_ids, user_id) ==
    {id \in DOMAIN table : id \in notification_ids /\ table[id].user_id = user_id}

MarkRead_unguarded(table, notification_ids, user_id, t) ==
    [id \in DOMAIN table |->
        IF id \in SelectedForRead(table, notification_ids, user_id)
        THEN [table[id] EXCEPT !.is_read = TRUE, !.read_at = t]
        ELSE table[id]]

\* lines 320-326: the table after mark_as_read called at time t
MarkRead(table, notification_ids, user_id, t) ==
    [id \in DOMAIN table |->
        IF id \in SelectedForRead(table, notification_ids, user_id) /\ ~table[id].is_read
        THEN [table[id] EXCEPT !.is_read = TRUE, !.read_at = t]
        ELSE table[id]]

\* lines 319-335: the count mark_as_read returns
MarkReadCount(table, notification_ids, user_id) ==
    Cardinality({id \in SelectedForRead(table, notification_ids, user_id) :
                    ~table[id].is_read})

mark_as_read(notification_ids, user_id) ==
    /\ notification_ids # {}
    /\ notifications' = MarkRead(notifications, notification_ids, user_id, now)
    /\ notifications' # notifications
    /\ UNCHANGED <<now, devices, connected_users, rooms, tasks, users>>

\* ---- NotificationService.register_device / delete_device endpoint ----
register_device(user_id, device_token) ==
    /\ devices' = [devices EXCEPT ![device_token] =
                      [user_id |-> user_id, is_active |-> TRUE]]
    /\ devices' # devices
    /\ UNCHANGED <<now, notifications, connected_users, rooms, tasks, users>>

delete_device(user_id, device_token) ==
    /\ devices[device_token] # NoDevice
    /\ devices[device_token].user_id = user_id
    /\ devices' = [devices EXCEPT ![device_token] = NoDevice]
    /\ UNCHANGED <<now, notifications, connected_users, rooms, tasks, users>>

\* ---- presence: connect / disconnect handlers ----
AssignedRooms(user_id) ==
    {"users", UserRoom(user_id)}
        \cup (IF Role(user_id) \in {"admin", "super_admin"} THEN {"admins"} ELSE {})
        \cup (IF Role(user_id) = "super_admin" THEN {"super_admins"} ELSE {})

connect(sid, user_id) ==
    /\ connected_users[sid] = NoUser
    /\ rooms' = [rooms EXCEPT ![sid] = AssignedRooms(user_id)]
    /\ connected_users' = [connected_users EXCEPT ![sid] = user_id]
    /\ UNCHANGED <<now, notifications, devices, tasks, users>>

disconnect(sid) ==
    /\ connected_users[sid] # NoUser
    /\ rooms' = [rooms EXCEPT ![sid] = {}]
    /\ connected_users' = [connected_users EXCEPT ![sid] = NoUser]
    /\ UNCHANGED <<now, notifications, devices, tasks, users>>

\* ---- time ----
Tick ==
    /\ now + RetryPeriod <= MaxTicks * RetryPeriod
    /\ now' = now + RetryPeriod
    /\ UNCHANGED <<notifications, devices, connected_users, rooms, tasks, users>>

Next ==
    \/ Tick
    \/ \E t \in TaskIds, u \in Owners, d \in 1..MaxSchedDelay :
          \/ create_notification(t, u, NULL)
          \/ /\ now + d * RetryPeriod <= MaxTicks * RetryPeriod
             /\ create_notification(t, u, now + d * RetryPeriod)
    \/ \E t \in TaskIds, success \in 0..Cardinality(Tokens) : SendGatewayReply(t, success)
    \/ \E t \in TaskIds : SendGatewayRaise(t)
    \/ \E t \in TaskIds : SendEmit(t)
    \/ \E t \in TaskIds : SendEmitRaise(t)
    \/ \E t \in TaskIds : SendCommit(t)
    \/ \E t \in TaskIds, handler_ok \in BOOLEAN : SendCommitRaise(t, handler_ok)
    \/ \E t \in TaskIds, handler_ok \in BOOLEAN : SendExcept(t, handler_ok)
    \/ \E t \in TaskIds : AfterSend(t)
    \/ \E t \in TaskIds : process_scheduled_notifications(t)
    \/ \E t \in TaskIds : retry_failed_notifications(t)
    \/ \E ids \in SUBSET NotifIds, u \in Owners : mark_as_read(ids, u)
    \/ \E u \in Owners, tk \in Tokens : register_device(u, tk)
    \/ \E u \in Owners, tk \in Tokens : delete_device(u, tk)
    \/ \E sid \in Sids, u \in Owners : connect(sid, u)
    \/ \E sid \in Sids : disconnect(sid)

Spec == Init /\ [][Next]_vars

\* ---- the device registry, handler by handler ----
\* a request handler that ended: what it was called with and what it answered
Answered(kind, user_id, device_token, found, result) ==
    [IdleTask EXCEPT !.kind = kind, !.pc = "done", !.result = result,
                     !.arg = [NoArg EXCEPT !.user_id = user_id,
                                           !.device_token = device_token,
                                           !.found = found]]

\* register_device, lines 407-412: the select by device_token
RegisterSelect(t, user_id, device_token) ==
    /\ FreeTask(t)
    /\ tasks' = [tasks EXCEPT ![t] =
                    [IdleTask EXCEPT !.kind = "register", !.pc = "register",
                                     !.arg = [NoArg EXCEPT
                                                !.user_id = user_id,
                                                !.device_token = device_token,
                                                !.found = devices[device_token] # NoDevice]]]
    /\ UNCHANGED <<now, notifications, devices, connected_users, rooms, users>>

\* whether the commit of register_device is accepted by the store: the
\* UPDATE of the row the select found needs the row to be still there, the
\* INSERT of a new row needs the token to be still free (device_token is
\* unique, models/notification.py line 136)
RegisterAccepted(found, row) ==
    IF found THEN row # NoDevice ELSE row = NoDevice

\* register_device, lines 414-450: update of the row found or insert of a
\* new row, and the commit; an exception of the commit is raised to the caller
RegisterCommit(t) ==
    LET a == tasks[t].arg IN
    /\ tasks[t].pc = "register"
    /\ IF RegisterAccepted(a.found, devices[a.device_token])
       THEN /\ devices' = [devices EXCEPT ![a.device_token] =
                              [user_id |-> a.user_id, is_active |-> TRUE]]
            /\ tasks' = [tasks EXCEPT ![t].pc = "done", ![t].result = "ok"]
       ELSE /\ devices' = devices
            /\ tasks' = [tasks EXCEPT ![t].pc = "done", ![t].result = "StoreError"]
    /\ UNCHANGED <<now, notifications, connected_users, rooms, users>>

\* the select of update_device and delete_device: the row with the given
\* id that belongs to the current user
OwnDevice(user_id, device_token) ==
    devices[device_token] # NoDevice /\ devices[device_token].user_id = user_id

\* endpoint update_device (is_active of the body is set on the row)
update_device(t, user_id, device_token, is_active) ==
    /\ FreeTask(t)
    /\ IF OwnDevice(user_id, device_token)
       THEN /\ devices' = [devices EXCEPT ![device_token].is_active = is_active]
            /\ tasks' = [tasks EXCEPT ![t] =
                            Answered("update_device", user_id, device_token, TRUE, "ok")]
       ELSE /\ devices' = devices
            /\ tasks' = [tasks EXCEPT ![t] =
                            Answered("update_device", user_id, device_token,
                                     devices[device_token] # NoDevice, "NotFoundError")]
    /\ UNCHANGED <<now, notifications, connected_users, rooms, users>>

\* endpoint delete_device with its answer
delete_device_endpoint(t, user_id, device_token) ==
    /\ FreeTask(t)
    /\ IF OwnDevice(user_id, device_token)
       THEN /\ devices' = [devices EXCEPT ![device_token] = NoDevice]
            /\ tasks' = [tasks EXCEPT ![t] =
                            Answered("delete_device", user_id, device_token, TRUE, "ok")]
       ELSE /\ devices' = devices
            /\ tasks' = [tasks EXCEPT ![t] =
                            Answered("delete_device", user_id, device_token,
                                     devices[device_token] # NoDevice, "NotFoundError")]
    /\ UNCHANGED <<now, notifications, connected_users, rooms, users>>

DevicesNext ==
    \/ \E t \in TaskIds, u \in Users, tk \in Tokens : RegisterSelect(t, u, tk)
    \/ \E t \in TaskIds : RegisterCommit(t)
    \/ \E t \in TaskIds, u \in Users, tk \in Tokens, a \in BOOLEAN :
          update_device(t, u, tk, a)
    \/ \E t \in TaskIds, u \in Users, tk \in Tokens : delete_device_endpoint(t, u, tk)
    \/ \E t \in TaskIds : AfterSend(t)

SpecDevices == Init /\ [][DevicesNext]_vars

\* ---- bulk creation and broadcast ----
\* rows of the store in the runs of bulk creation and broadcast
MaxBulkNotifs == 2

\* the order in which a query returns the users
UserOrder == <<"U1", "U2">>
UsersInOrder(S) == SelectSeq(UserOrder, LAMBDA u : u \in S)

\* the values of target_roles (None and the empty list are both the empty set)
RoleFilters == SUBSET {"admin", "user"}

\* endpoints activate_user / deactivate_user
activate_user(user_id) ==
    /\ ~users[user_id].is_active
    /\ users' = [users EXCEPT ![user_id].is_active = TRUE]
    /\ UNCHANGED <<now, notifications, devices, connected_users, rooms, tasks>>

deactivate_user(user_id) ==
    /\ users[user_id].is_active
    /\ users' = [users EXCEPT ![user_id].is_active = FALSE]
    /\ UNCHANGED <<now, notifications, devices, connected_users, rooms, tasks>>

\* lines 93-113 and 147-169: one record per element of the list, one commit,
\* then the loop of send_notification unless scheduled_at is set
CreateAll(t, kind, user_seq, scheduled_at) ==
    LET n == Len(user_seq)
        base == Len(notifications)
        rows == [i \in 1..n |-> NewNotification(user_seq[i], scheduled_at)]
        copies == [i \in 1..n |->
                     [id |-> base + i, obj |-> [f \in DispatchColumns |-> rows[i][f]]]]
    IN
    /\ FreeTask(t)
    /\ base + n <= MaxBulkNotifs
    /\ notifications' = notifications \o rows
    /\ tasks' = IF scheduled_at = NULL
                THEN [tasks EXCEPT ![t] = StartTask(kind, copies)]
                ELSE tasks
    /\ UNCHANGED <<now, devices, connected_users, rooms, users>>

create_bulk_notifications(t, user_ids, scheduled_at) ==
    /\ user_ids # {}
    /\ CreateAll(t, "bulk", UsersInOrder(user_ids), scheduled_at)

BroadcastTargets_any_status(target_roles) ==
    {u \in Users : target_roles = {} \/ users[u].role \in target_roles}

\* lines 137-145: the active users, of the given roles when target_roles is
\* not empty
BroadcastTargets(target_roles) ==
    {u \in Users :
        /\ users[u].is_active
        /\ target_roles = {} \/ users[u].role \in target_roles}

broadcast_notification(t, target_roles, scheduled_at) ==
    CreateAll(t, "broadcast", UsersInOrder(BroadcastTargets(target_roles)), scheduled_at)

BroadcastNext ==
    \/ \E u \in Users : activate_user(u)
    \/ \E u \in Users : deactivate_user(u)
    \/ \E t \in TaskIds, u \in Users, s \in {NULL, RetryPeriod} :
          /\ notifications = <<>>
          /\ create_notification(t, u, s)
    \/ \E t \in TaskIds, ids \in SUBSET Users, s \in {NULL, RetryPeriod} :
          create_bulk_notifications(t, ids, s)
    \/ \E t \in TaskIds, roles \in RoleFilters, s \in {NULL, RetryPeriod} :
          broadcast_notification(t, roles, s)
    \/ \E t \in TaskIds, success \in 0..Cardinality(Tokens) : SendGatewayReply(t, success)
    \/ \E t \in TaskIds : SendGatewayRaise(t)
    \/ \E t \in TaskIds : SendEmit(t)
    \/ \E t \in TaskIds : SendEmitRaise(t)
    \/ \E t \in TaskIds : SendCommit(t)
    \/ \E t \in TaskIds, handler_ok \in BOOLEAN : SendCommitRaise(t, handler_ok)
    \/ \E t \in TaskIds, handler_ok \in BOOLEAN : SendExcept(t, handler_ok)
    \/ \E t \in TaskIds : AfterSend(t)
    \/ \E u \in Users, tk \in Tokens : register_device(u, tk)
    \/ \E sid \in Sids, u \in Users : connect(sid, u)

SpecBroadcast == Init /\ [][BroadcastNext]_vars

\* ---- presence, handler by handler ----
\* (connect and disconnect above are the two handlers taken as one step
\* each; here every awaited call of a handler is a step of its own)

\* a connect or disconnect handler is running for the session
SidBusy(sid) ==
    \E t \in TaskIds :
        /\ tasks[t].kind \in {"connect", "disconnect"}
        /\ tasks[t].pc # "done"
        /\ tasks[t].arg.sid = sid

\* add_user_to_room, lines 62-73: the rooms in the order they are entered
JoinSeq(user_id) ==
    <<"users", UserRoom(user_id)>>
        \o (IF Role(user_id) \in {"admin", "super_admin"} THEN <<"admins">> ELSE <<>>)
        \o (IF Role(user_id) = "super_admin" THEN <<"super_admins">> ELSE <<>>)

\* the credential of a handshake: no token, a token verify_token rejects
\* (forged for U1 or expired), a valid token whose user has no row, or the
\* valid token of a user
TokenOf(user_id) == "jwt_" \o user_id
Credentials == {"none", "bad", "ghost"} \cup {TokenOf(u) : u \in Users}

authenticate_socket_unverified(token) ==
    IF \E u \in Users : token = TokenOf(u)
    THEN CHOOSE u \in Users : token = TokenOf(u)
    ELSE IF token = "bad" THEN "U1" ELSE NoUser

\* authenticate_socket, lines 39-57: the user of a token that verify_token
\* accepts and whose user row exists, None otherwise
authenticate_socket(token) ==
    IF \E u \in Users : token = TokenOf(u)
    THEN CHOOSE u \in Users : token = TokenOf(u)
    ELSE NoUser

\* handler connect, lines 187-204: the token is accepted and
\* add_user_to_room is called
ConnectAccepted(t, sid, user_id, token) ==
    /\ FreeTask(t)
    /\ ~SidBusy(sid)
    /\ connected_users[sid] = NoUser
    /\ rooms[sid] = {}
    /\ tasks' = [tasks EXCEPT ![t] =
                    [IdleTask EXCEPT !.kind = "connect", !.pc = "enter_room",
                                     !.arg = [NoArg EXCEPT !.sid = sid,
                                                           !.user_id = user_id,
                                                           !.token = token]]]
    /\ UNCHANGED <<now, notifications, devices, connected_users, rooms, users>>

\* a handshake with the valid token of the user
ConnectBegin(t, sid, user_id) == ConnectAccepted(t, sid, user_id, TokenOf(user_id))

\* handler connect, lines 191-201: without a token, or with a token that
\* authenticate_socket does not resolve to a user, the session is
\* disconnected and the handler returns False
ConnectRefused(t, sid, token) ==
    /\ FreeTask(t)
    /\ ~SidBusy(sid)
    /\ connected_users[sid] = NoUser
    /\ rooms[sid] = {}
    /\ tasks' = [tasks EXCEPT ![t] =
                    [IdleTask EXCEPT !.kind = "connect", !.pc = "done",
                                     !.result = "False",
                                     !.arg = [NoArg EXCEPT !.sid = sid,
                                                           !.token = token]]]
    /\ UNCHANGED <<now, notifications, devices, connected_users, rooms, users>>

\* handler connect, lines 187-204: the handshake with its credential
connect_handshake(t, sid, token) ==
    IF token = "none" \/ authenticate_socket(token) = NoUser
    THEN ConnectRefused(t, sid, token)
    ELSE ConnectAccepted(t, sid, authenticate_socket(token), token)

\* add_user_to_room, lines 62-81: one awaited sio.enter_room; after the
\* last one the session is stored in connected_users
ConnectEnter(t) ==
    LET a == tasks[t].arg
        seq == JoinSeq(a.user_id)
        k == tasks[t].step + 1
    IN
    /\ tasks[t].kind = "connect"
    /\ tasks[t].pc = "enter_room"
    /\ rooms' = [rooms EXCEPT ![a.sid] = @ \cup {seq[k]}]
    /\ connected_users' = IF k = Len(seq)
                          THEN [connected_users EXCEPT ![a.sid] = a.user_id]
                          ELSE connected_users
    /\ tasks' = [tasks EXCEPT ![t].step = k,
                              ![t].pc = IF k < Len(seq) THEN "enter_room"
                                        ELSE IF Role(a.user_id) = "user" THEN "notice"
                                        ELSE "welcome"]
    /\ UNCHANGED <<now, notifications, devices, users>>

\* add_user_to_room, lines 83-89: emit_to_admins("user_connected")
ConnectNotice(t) ==
    /\ tasks[t].kind = "connect"
    /\ tasks[t].pc = "notice"
    /\ tasks' = [tasks EXCEPT ![t].pc = "welcome"]
    /\ UNCHANGED <<now, notifications, devices, connected_users, rooms, users>>

\* handler connect, lines 209-222: the welcome emit, return True
ConnectWelcome(t) ==
    /\ tasks[t].kind = "connect"
    /\ tasks[t].pc = "welcome"
    /\ tasks' = [tasks EXCEPT ![t].pc = "done", ![t].result = "True"]
    /\ UNCHANGED <<now, notifications, devices, connected_users, rooms, users>>

\* handler connect, lines 224-227: an emit of the handler raises (an emit
\* can raise only when its room has a session), the except branch calls
\* sio.disconnect(sid), which runs the disconnect handler for the session
ConnectRaise(t) ==
    /\ tasks[t].kind = "connect"
    /\ \/ tasks[t].pc = "notice" /\ RoomMembers("admins") # {}
       \/ tasks[t].pc = "welcome"
    /\ tasks' = [tasks EXCEPT ![t].kind = "disconnect", ![t].pc = "notice_out"]
    /\ UNCHANGED <<now, notifications, devices, connected_users, rooms, users>>

\* handler disconnect, lines 231-244, and remove_user_from_rooms, line 93:
\* the session is in connected_users
DisconnectBegin(t, sid) ==
    /\ FreeTask(t)
    /\ ~SidBusy(sid)
    /\ connected_users[sid] # NoUser
    /\ rooms[sid] # {}
    /\ tasks' = [tasks EXCEPT ![t] =
                    [IdleTask EXCEPT !.kind = "disconnect", !.pc = "notice_out",
                                     !.arg = [NoArg EXCEPT !.sid = sid,
                                                           !.user_id = connected_users[sid]]]]
    /\ UNCHANGED <<now, notifications, devices, connected_users, rooms, users>>

\* remove_user_from_rooms, lines 96-103: the notice to the admins is
\* emitted, then the session is deleted from connected_users; the socket
\* server drops the memberships of the session when the handler has returned
DisconnectNotice(t) ==
    LET a == tasks[t].arg IN
    /\ tasks[t].kind = "disconnect"
    /\ tasks[t].pc = "notice_out"
    /\ connected_users' = [connected_users EXCEPT ![a.sid] = NoUser]
    /\ rooms' = [rooms EXCEPT ![a.sid] = {}]
    /\ tasks' = [tasks EXCEPT ![t].pc = "done", ![t].result = "ok"]
    /\ UNCHANGED <<now, notifications, devices, users>>

\* remove_user_from_rooms, lines 96-101, and handler disconnect, lines
\* 246-247: the notice raises, the except branch of the handler logs it
DisconnectNoticeRaise(t) ==
    LET a == tasks[t].arg IN
    /\ tasks[t].kind = "disconnect"
    /\ tasks[t].pc = "notice_out"
    /\ RoomMembers("admins") # {}
    /\ rooms' = [rooms EXCEPT ![a.sid] = {}]
    /\ tasks' = [tasks EXCEPT ![t].pc = "done", ![t].result = "logged"]
    /\ UNCHANGED <<now, notifications, devices, connected_users, users>>

\* get_connected_users_count: len(self.connected_users)
get_connected_users_count ==
    Cardinality({sid \in Sids : connected_users[sid] # NoUser})

\* the room names a client asks for; join_room refuses the names that
\* start with "admin_" to a session whose role is not admin
RoomNames == {"admins", "admin_reports", UserRoom("U1")}
AdminPrefixed == {"admin_reports"}

\* handler join_room
join_room(sid, room) ==
    /\ connected_users[sid] # NoUser
    /\ ~SidBusy(sid)
    /\ ~(room \in AdminPrefixed /\ Role(connected_users[sid]) \notin {"admin", "super_admin"})
    /\ room \notin rooms[sid]
    /\ rooms' = [rooms EXCEPT ![sid] = @ \cup {room}]
    /\ UNCHANGED <<now, notifications, devices, connected_users, tasks, users>>

\* handler leave_room
leave_room(sid, room) ==
    /\ connected_users[sid] # NoUser
    /\ ~SidBusy(sid)
    /\ room \in rooms[sid]
    /\ rooms' = [rooms EXCEPT ![sid] = @ \ {room}]
    /\ UNCHANGED <<now, notifications, devices, connected_users, tasks, users>>

NotificationRoom_everyone(user_id) == "users"

\* emit_to_user, line 107: room=f"user_{user_id}"
NotificationRoom(user_id) == UserRoom(user_id)

\* broadcast_notification -> emit_to_user: the event goes to the sessions
\* the socket server has in the room when sio.emit is called
emit_to_user(t, user_id) ==
    /\ FreeTask(t)
    /\ tasks' = [tasks EXCEPT ![t] =
                    [IdleTask EXCEPT !.kind = "emit", !.pc = "done",
                                     !.arg = [NoArg EXCEPT !.user_id = user_id],
                                     !.observers = RoomMembers(NotificationRoom(user_id))]]
    /\ UNCHANGED <<now, notifications, devices, connected_users, rooms, users>>

PresenceNext ==
    \/ \E t \in TaskIds, sid \in Sids, token \in Credentials :
          connect_handshake(t, sid, token)
    \/ \E t \in TaskIds : ConnectEnter(t)
    \/ \E t \in TaskIds : ConnectNotice(t)
    \/ \E t \in TaskIds : ConnectWelcome(t)
    \/ \E t \in TaskIds : ConnectRaise(t)
    \/ \E t \in TaskIds, sid \in Sids : DisconnectBegin(t, sid)
    \/ \E t \in TaskIds : DisconnectNotice(t)
    \/ \E t \in TaskIds : DisconnectNoticeRaise(t)
    \/ \E sid \in Sids, room \in RoomNames : join_room(sid, room)
    \/ \E sid \in Sids, room \in RoomNames : leave_room(sid, room)
    \/ \E t \in TaskIds, u \in Users : emit_to_user(t, u)
    \/ \E t \in TaskIds : AfterSend(t)

SpecPresence == Init /\ [][PresenceNext]_vars

\* ---- dispatch and read receipts over the notifications of two users ----
FrameNext ==
    \/ \E t \in TaskIds, ids \in SUBSET Users : create_bulk_notifications(t, ids, NULL)
    \/ \E t \in TaskIds, success \in 0..Cardinality(Tokens) : SendGatewayReply(t, success)
    \/ \E t \in TaskIds : SendGatewayRaise(t)
    \/ \E t \in TaskIds : SendEmit(t)
    \/ \E t \in TaskIds : SendCommit(t)
    \/ \E t \in TaskIds, handler_ok \in BOOLEAN : SendCommitRaise(t, handler_ok)
    \/ \E t \in TaskIds, handler_ok \in BOOLEAN : SendExcept(t, handler_ok)
    \/ \E t \in TaskIds : AfterSend(t)
    \/ \E ids \in SUBSET NotifIds, u \in Users : mark_as_read(ids, u)
    \/ \E u \in Owners, tk \in Tokens : register_device(u, tk)

SpecFrame == Init /\ [][FrameNext]_vars

\* ---- bulk creation followed by the sweeps, with the scheduling the
\* deployment gives: the event loop runs the coroutines that can run, celery
\* beat starts both sweeps again and again (lines 537-546), time passes,
\* and the store does not refuse every commit for ever ----
RecoverySend ==
    \E t \in TaskIds :
        \/ SendEmit(t)
        \/ SendCommit(t)
        \/ \E handler_ok \in BOOLEAN : SendCommitRaise(t, handler_ok)
        \/ AfterSend(t)

\* a commit of the try block that succeeds
RecoveryCommit == \E t \in TaskIds : SendCommit(t)

RecoverySweeps ==
    \E t \in TaskIds :
        \/ process_scheduled_notifications(t)
        \/ retry_failed_notifications(t)

RecoveryNext ==
    \/ Tick
    \/ \E t \in TaskIds, ids \in SUBSET Users, s \in {NULL, RetryPeriod} :
          create_bulk_notifications(t, ids, s)
    \/ RecoverySend
    \/ RecoverySweeps

SpecRecovery ==
    /\ Init
    /\ [][RecoveryNext]_vars
    /\ WF_vars(Tick)
    /\ WF_vars(RecoverySend)
    /\ WF_vars(RecoverySweeps)
    /\ SF_vars(RecoveryCommit)

\* ---- one notification from its creation to the end of its retries, with
\* the same scheduling: every send that has started goes on, both sweeps
\* are started again and again, time passes, and a commit is not refused
\* for ever ----
ProgressSend ==
    \E t \in TaskIds :
        \/ \E success \in 0..Cardinality(Tokens) : SendGatewayReply(t, success)
        \/ SendGatewayRaise(t)
        \/ SendEmit(t)
        \/ SendCommit(t)
        \/ \E handler_ok \in BOOLEAN : SendCommitRaise(t, handler_ok)
        \/ \E handler_ok \in BOOLEAN : SendExcept(t, handler_ok)
        \/ AfterSend(t)

\* a send whose last commit succeeds
ProgressCommit ==
    \E t \in TaskIds :
        \/ SendCommit(t)
        \/ SendCommitRaise(t, TRUE)
        \/ SendExcept(t, TRUE)

ProgressNext ==
    \/ Tick
    \/ \E t \in TaskIds, u \in Owners, d \in 1..MaxSchedDelay :
          \/ create_notification(t, u, NULL)
          \/ /\ now + d * RetryPeriod <= MaxTicks * RetryPeriod
             /\ create_notification(t, u, now + d * RetryPeriod)
    \/ \E u \in Owners, tk \in Tokens : register_device(u, tk)
    \/ ProgressSend
    \/ RecoverySweeps

SpecProgress ==
    /\ Init
    /\ [][ProgressNext]_vars
    /\ WF_vars(Tick)
    /\ WF_vars(ProgressSend)
    /\ WF_vars(RecoverySweeps)
    /\ SF_vars(ProgressCommit)

\* ---- the event loop of the web process ----
\* the create handlers and the socket handlers are coroutines of one event
\* loop; the sweeps run in celery workers (lines 511-531), a loop of their own
WebKinds == {"create", "bulk", "broadcast", "connect", "disconnect", "emit"}

\* line 230: fcm.notify_multiple_devices(...) is called without await, the
\* coroutine keeps the event loop until the gateway has answered
LoopFree(t) ==
    \A t2 \in TaskIds \ {t} :
        ~(tasks[t2].pc = "gateway" /\ tasks[t2].kind \in WebKinds)

\* no coroutine of the web process is inside the gateway call
LoopIdle == \A t \in TaskIds : LoopFree(t) /\ tasks[t].pc # "gateway"

\* lines 212-235: the gateway is called
GatewayCall(t) ==
    /\ LoopFree(t)
    /\ tasks[t].pc = "push"
    /\ ActiveDeviceTokens(OwnerOf(t)) # {}
    /\ tasks' = [tasks EXCEPT ![t].pc = "gateway"]
    /\ UNCHANGED <<now, notifications, devices, connected_users, rooms, users>>

\* lines 230-237: the gateway answers with a success count
GatewayReply(t, success) ==
    /\ tasks[t].pc = "gateway"
    /\ success \in 0..Cardinality(ActiveDeviceTokens(OwnerOf(t)))
    /\ tasks' = [tasks EXCEPT ![t].pc = "emit", ![t].gw = "reply", ![t].success = success]
    /\ UNCHANGED <<now, notifications, devices, connected_users, rooms, users>>

\* the gateway call raises
GatewayRaise(t) ==
    /\ tasks[t].pc = "gateway"
    /\ Caught(t, "raise", "none")

\* a step of send_notification other than the gateway call, and the return
\* to its caller
LoopSendStep(t) ==
    /\ LoopFree(t)
    /\ \/ SendEmit(t)
       \/ SendEmitRaise(t)
       \/ SendCommit(t)
       \/ \E handler_ok \in BOOLEAN : SendCommitRaise(t, handler_ok)
       \/ \E handler_ok \in BOOLEAN : SendExcept(t, handler_ok)
       \/ AfterSend(t)

\* a step of a connect or disconnect handler that has begun
LoopPresenceStep(t) ==
    /\ LoopFree(t)
    /\ \/ ConnectEnter(t)
       \/ ConnectNotice(t)
       \/ ConnectWelcome(t)
       \/ ConnectRaise(t)
       \/ DisconnectNotice(t)
       \/ DisconnectNoticeRaise(t)

\* the sessions that connect in the runs of the event loop
LoopSids == {"s1"}

\* a handler of the web process begins
LoopBegin(t) ==
    /\ LoopIdle
    /\ \/ \E ids \in SUBSET Owners : create_bulk_notifications(t, ids, NULL)
       \/ \E sid \in LoopSids, u \in Users : ConnectBegin(t, sid, u)
       \/ \E sid \in LoopSids : DisconnectBegin(t, sid)
       \/ \E u \in Owners : emit_to_user(t, u)

LoopNext ==
    \/ \E t \in TaskIds : GatewayCall(t)
    \/ \E t \in TaskIds, success \in 0..Cardinality(Tokens) : GatewayReply(t, success)
    \/ \E t \in TaskIds : GatewayRaise(t)
    \/ \E t \in TaskIds : LoopSendStep(t)
    \/ \E t \in TaskIds : LoopPresenceStep(t)
    \/ \E t \in TaskIds : LoopBegin(t)
    \/ \E u \in Owners, tk \in Tokens : LoopIdle /\ register_device(u, tk)

SpecLoop == Init /\ [][LoopNext]_vars

TypeOK ==
    /\ now \in 0..(MaxTicks * RetryPeriod)
    /\ Len(notifications) <= MaxNotifs
    /\ \A t \in TaskIds :
          tasks[t].kind \in {"idle", "create", "scheduled", "retry", "bulk", "broadcast",
                             "register", "update_device", "delete_device",
                             "connect", "disconnect", "emit"}

\* ---- vocabulary of the properties ----
Row(t) == notifications[tasks[t].cur.id]
Sending(t) == tasks[t].pc \in {"push", "emit", "commit", "except"}

\* the call of task t has attempted a channel call (gateway call or emit)
\* and has not returned yet
InFlight(t) ==
    \/ tasks[t].pc \in {"emit", "commit", "except"}

\* this step is a channel call of task t
CallStep(t) ==
    /\ tasks[t].pc \in {"push", "emit"}
    /\ tasks'[t].pc # tasks[t].pc

\* this step is the return of send_notification in task t
Returns(t) ==
    /\ Sending(t)
    /\ tasks'[t].pc = "done"

Terminal(id) ==
    /\ notifications[id].status = "FAILED"
    /\ notifications[id].retry_count = notifications[id].max_retries

\* C1: no notification is dispatched twice for the same state transition:
\* an attempt that has made a channel call works from the persisted
\* (status, retry_count) of its row, and no second attempt for the same row
\* is in flight beside it.
NoDoubleDispatch ==
    \A t \in TaskIds :
        InFlight(t) =>
            /\ tasks[t].cur.obj.status = Row(t).status
            /\ tasks[t].cur.obj.retry_count = Row(t).retry_count
            /\ \A t2 \in TaskIds \ {t} :
                  InFlight(t2) => tasks[t2].cur.id # tasks[t].cur.id

\* C2: retry_count <= max_retries in every persisted state.
RetryCountBounded ==
    \A id \in NotifIds :
        notifications[id].retry_count <= notifications[id].max_retries

\* C3: a send attempt for an owner without active device is not a failure:
\* when it returns, the row is SENT with sent_at set and retry_count is
\* unchanged.
NoDeviceIsSent ==
    [][\A t \in TaskIds :
          (/\ Returns(t)
           /\ tasks'[t].gw = "none"
           /\ tasks'[t].emit = "ok"
           /\ tasks'[t].commit = "ok")
          => /\ Row(t)'.status = "SENT"
             /\ Row(t)'.sent_at # NULL
             /\ Row(t)'.retry_count = Row(t).retry_count]_vars

\* C4: a FAILED notification whose retry_count reached max_retries has
\* next_retry_at = null.
TerminalHasNoRetryTime ==
    \A id \in NotifIds :
        Terminal(id) => notifications[id].next_retry_at = NULL

\* C5: FAILED with retry_count = max_retries is terminal: no later step is
\* a channel call for the notification, and its status and retry_count
\* never change again.
TerminalIsStable ==
    [][\A id \in NotifIds :
          Terminal(id) =>
             /\ notifications'[id].status = notifications[id].status
             /\ notifications'[id].retry_count = notifications[id].retry_count
             /\ \A t \in TaskIds : tasks[t].cur.id = id => ~CallStep(t)]_vars

\* the rows a task still holds copies of
Loaded(task) ==
    (IF task.cur.id = 0 THEN {} ELSE {task.cur.id})
        \cup {task.queue[i].id : i \in 1..Len(task.queue)}

\* C6: retry path. A first send (copy PENDING) in which the gateway raises
\* leaves the row FAILED with retry_count = 1 and next_retry_at = now +
\* RetryDelay; a retry-sweep run picks up exactly the FAILED rows with
\* retry_count < max_retries and next_retry_at <= now; and a send of the
\* retry-sweep in which the gateway reports success_count > 0 leaves the row
\* SENT (the commits of the store succeed).
RetryPath ==
    [][\A t \in TaskIds :
          /\ (/\ Returns(t)
              /\ tasks[t].cur.obj.status = "PENDING"
              /\ tasks'[t].gw = "raise"
              /\ tasks'[t].handler_commit = "ok")
             => /\ Row(t)'.status = "FAILED"
                /\ Row(t)'.retry_count = 1
                /\ Row(t)'.next_retry_at = now + RetryDelay
          /\ (tasks[t].kind = "idle" /\ tasks'[t].kind = "retry")
             => Loaded(tasks'[t]) = RetryDue
          /\ (/\ Returns(t)
              /\ tasks[t].kind = "retry"
              /\ tasks'[t].gw = "reply"
              /\ tasks'[t].success > 0
              /\ tasks'[t].emit = "ok"
              /\ tasks'[t].commit = "ok")
             => Row(t)'.status = "SENT"]_vars

\* a retry-sweep run sent a row that had failed once and was due, the
\* gateway reported a success for the owner's device, the owner has no live
\* session, and the row is SENT
RetryPathWitness ==
    \E t \in TaskIds :
        /\ tasks[t].pc = "done"
        /\ tasks[t].kind = "retry"
        /\ tasks[t].cur.obj.status = "FAILED"
        /\ tasks[t].cur.obj.retry_count = 1
        /\ tasks[t].cur.obj.next_retry_at <= now
        /\ tasks[t].gw = "reply"
        /\ tasks[t].success > 0
        /\ tasks[t].result = "True"
        /\ RoomMembers(UserRoom(OwnerOf(t))) = {}
        /\ Row(t).status = "SENT"

\* C7: a send in which the gateway replies success_count >= 1, the emit
\* does not raise (the owner has no live session) and the commit succeeds
\* leaves the row SENT with sent_at = now and does not change retry_count
\* and next_retry_at.
GatewaySuccessIsSent ==
    [][\A t \in TaskIds :
          (/\ Returns(t)
           /\ tasks'[t].gw = "reply"
           /\ tasks'[t].success >= 1
           /\ tasks'[t].emit = "ok"
           /\ tasks'[t].commit = "ok")
          => /\ Row(t)'.status = "SENT"
             /\ Row(t)'.sent_at = now
             /\ Row(t)'.retry_count = Row(t).retry_count
             /\ Row(t)'.next_retry_at = Row(t).next_retry_at
             /\ tasks'[t].result = "True"]_vars

\* the first send of a notification whose owner has an active device and
\* no live session returned True and the row is SENT
GatewaySuccessWitness ==
    \E t \in TaskIds :
        /\ tasks[t].pc = "done"
        /\ tasks[t].kind = "create"
        /\ tasks[t].gw = "reply"
        /\ tasks[t].success = 1
        /\ tasks[t].result = "True"
        /\ ActiveDeviceTokens(OwnerOf(t)) # {}
        /\ RoomMembers(UserRoom(OwnerOf(t))) = {}
        /\ Row(t).status = "SENT"
        /\ Row(t).sent_at = now
        /\ Row(t).retry_count = 0

\* C8: a send attempt in which no channel call raised (no device, or a
\* gateway reply with success_count = 0) never moves the row to FAILED and
\* never increments retry_count.
FailedOnlyOnChannelError ==
    [][\A t \in TaskIds :
          (/\ Returns(t)
           /\ tasks'[t].gw # "raise"
           /\ tasks'[t].emit = "ok"
           /\ tasks'[t].commit = "ok")
          => /\ Row(t)'.status # "FAILED"
             /\ Row(t)'.retry_count = Row(t).retry_count]_vars

EmitFailureSwallowed ==
    [][\A t \in TaskIds :
          (/\ Returns(t)
           /\ tasks'[t].emit = "raise"
           /\ tasks'[t].gw = "reply"
           /\ tasks'[t].success > 0
           /\ tasks'[t].handler_commit = "ok")
          => /\ Row(t)'.status = "SENT"
             /\ Row(t)'.retry_count = Row(t).retry_count
             /\ tasks'[t].result = "True"]_vars

\* C11: mark_as_read is idempotent: after a call of mark_as_read, a second
\* call with the same ids and user, at the same time or later, changes no
\* field of any notification and returns the count 0.
MarkReadIdempotent ==
    [][\A ids \in SUBSET NotifIds, u \in Users :
          mark_as_read(ids, u)
          => \A t2 \in {now', now' + RetryPeriod} :
                /\ MarkRead(notifications', ids, u, t2) = notifications'
                /\ MarkReadCount(notifications', ids, u) = 0]_vars

\* a notification was marked read at an earlier time than now, so that a
\* second call would see a different clock
MarkReadWitness ==
    \E id \in NotifIds :
        /\ notifications[id].is_read
        /\ notifications[id].read_at # NULL
        /\ notifications[id].read_at < now

\* C12: mark_as_read on a notification of the user sets is_read, sets
\* read_at = now when it was unread, and upgrades the status to READ from
\* every prior status.
MarkReadUpgradesStatus ==
    [][\A ids \in SUBSET NotifIds, u \in Users :
          mark_as_read(ids, u)
          => \A id \in SelectedForRead(notifications, ids, u) :
                /\ notifications'[id].is_read
                /\ ~notifications[id].is_read => notifications'[id].read_at = now
                /\ notifications'[id].status = "READ"]_vars

\* C13: is_read implies status in {SENT, DELIVERED, READ} and read_at set.
ReadImpliesDelivered ==
    \A id \in NotifIds :
        notifications[id].is_read
        => /\ notifications[id].status \in {"SENT", "DELIVERED", "READ"}
           /\ notifications[id].read_at # NULL

\* C14: after every register call there is a device row for the token,
\* owned by the caller and active (the latest register call wins), whether
\* the calls run one after the other or overlap.
LatestRegisterWins ==
    [][\A t \in TaskIds :
          (tasks[t].pc = "register" /\ tasks'[t].pc = "done")
          => LET tk == tasks[t].arg.device_token IN
             /\ devices'[tk] # NoDevice
             /\ devices'[tk].user_id = tasks[t].arg.user_id
             /\ devices'[tk].is_active]_vars

\* C15: updating or removing a device on behalf of a user who does not own
\* it fails with an AuthorizationError and leaves the device row unchanged.
ForeignDeviceIsRefused ==
    [][\A t \in TaskIds :
          (/\ tasks[t].kind = "idle"
           /\ tasks'[t].kind \in {"update_device", "delete_device"}
           /\ tasks'[t].arg.found
           /\ devices[tasks'[t].arg.device_token].user_id # tasks'[t].arg.user_id)
          => /\ tasks'[t].result = "AuthorizationError"
             /\ devices' = devices]_vars

\* C16: a broadcast creates exactly one notification for each user that is
\* active at the time of the call and, when a role filter is given, has a
\* role of the filter; it creates none for an inactive user and none for a
\* user whose role is outside the filter. A filter that is absent or empty
\* selects every active user.
BroadcastOnePerTarget ==
    [][\A t \in TaskIds, roles \in RoleFilters, s \in {NULL, RetryPeriod} :
          broadcast_notification(t, roles, s) =>
             LET new == {id \in DOMAIN notifications' : id > Len(notifications)} IN
             \A u \in Users :
                Cardinality({id \in new : notifications'[id].user_id = u}) =
                   IF users[u].is_active /\ (roles = {} \/ users[u].role \in roles)
                   THEN 1 ELSE 0]_vars

\* a broadcast created a single record, for the admin, and the other user
\* is inactive
BroadcastWitness ==
    \E t \in TaskIds :
        /\ tasks[t].kind = "broadcast"
        /\ tasks[t].created = {1}
        /\ Len(notifications) = 1
        /\ notifications[1].user_id = "U2"
        /\ ~users["U1"].is_active

\* the handlers that create notifications
Creates == {"create", "bulk", "broadcast"}

\* C17: every record of create_notification, create_bulk_notifications and
\* broadcast_notification is created PENDING with retry_count 0; with
\* scheduled_at set the create call makes no channel call and returns with
\* its records as created; with scheduled_at null the call sends its
\* records, and when it returns each of them has been through exactly one
\* call of send_notification made by the create call.
CreateDispatchesOnce ==
    [][/\ \A id \in DOMAIN notifications' :
             id > Len(notifications) =>
                /\ notifications'[id].status = "PENDING"
                /\ notifications'[id].retry_count = 0
                /\ notifications'[id].scheduled_at # NULL => tasks' = tasks
                /\ notifications'[id].scheduled_at = NULL =>
                      \E t \in TaskIds :
                          /\ tasks[t].kind = "idle"
                          /\ tasks'[t].kind \in Creates
                          /\ id \in tasks'[t].created
                          /\ tasks'[t].sent = <<>>
       /\ \A t \in TaskIds :
             (/\ tasks'[t].kind \in Creates
              /\ tasks'[t].pc = "done"
              /\ tasks'[t].queue = <<>>
              /\ tasks'[t].result \in {"True", "False"}) =>
                 /\ Len(tasks'[t].sent) = Cardinality(tasks'[t].created)
                 /\ \A id \in tasks'[t].created :
                       Cardinality({i \in DOMAIN tasks'[t].sent :
                                       tasks'[t].sent[i] = id}) = 1]_vars

\* a bulk creation or a broadcast of two records is about to return and
\* both records were sent
CreateDispatchesWitness ==
    \E t \in TaskIds :
        /\ tasks[t].kind \in {"bulk", "broadcast"}
        /\ tasks[t].pc = "done"
        /\ tasks[t].queue = <<>>
        /\ tasks[t].result \in {"True", "False"}
        /\ Cardinality(tasks[t].created) = 2
        /\ Len(tasks[t].sent) = 2

\* C18: the joins of connect are one atomic membership update: while a
\* connect is being handled, a session that is in the global room "users"
\* is also in its own user room and in the admin / super-admin rooms of its
\* role, and is in connected_users.
ConnectJoinsAtomic ==
    \A t \in TaskIds :
        (/\ tasks[t].kind = "connect"
         /\ tasks[t].pc # "done"
         /\ "users" \in rooms[tasks[t].arg.sid]) =>
            /\ AssignedRooms(tasks[t].arg.user_id) \subseteq rooms[tasks[t].arg.sid]
            /\ connected_users[tasks[t].arg.sid] = tasks[t].arg.user_id

\* C19: when the disconnect handler has ended for a session, the session
\* is not in connected_users and get_connected_users_count does not count
\* it, also when the notice to the admins raised.
DisconnectRemovesSession ==
    \A t \in TaskIds :
        (tasks[t].kind = "disconnect" /\ tasks[t].pc = "done") =>
            /\ connected_users[tasks[t].arg.sid] = NoUser
            /\ get_connected_users_count =
                  Cardinality({sid \in Sids \ {tasks[t].arg.sid} :
                                  connected_users[sid] # NoUser})

\* C20: the notification event emitted for a user is observed only by
\* sessions that are in the room user_<id> of that user when it is emitted.
EmitOnlyToRoom ==
    [][\A t \in TaskIds :
          (tasks[t].kind = "idle" /\ tasks'[t].kind = "emit") =>
             \A sid \in tasks'[t].observers :
                UserRoom(tasks'[t].arg.user_id) \in rooms[sid]]_vars

\* an event for U1 was observed by one session while another connected
\* session, outside the room, did not observe it
EmitOnlyToRoomWitness ==
    \E t \in TaskIds :
        /\ tasks[t].kind = "emit"
        /\ tasks[t].arg.user_id = "U1"
        /\ tasks[t].observers # {}
        /\ \E sid \in Sids \ tasks[t].observers :
              /\ connected_users[sid] # NoUser
              /\ UserRoom("U1") \notin rooms[sid]

\* C21: while a gateway call is in flight for one notification, the sends
\* of other notifications and the presence handlers are not blocked by it:
\* a send that has a step to take can take it, a connect or disconnect that
\* has begun can go on, and a new connect or emit can begin.
GatewayBlocksNothing ==
    \A t \in TaskIds :
        tasks[t].pc = "gateway" =>
            \A t2 \in TaskIds \ {t} :
                /\ tasks[t2].pc \in {"emit", "commit", "except", "done"} =>
                      ENABLED LoopSendStep(t2)
                /\ tasks[t2].pc \in {"enter_room", "notice", "welcome", "notice_out"} =>
                      ENABLED LoopPresenceStep(t2)
                /\ FreeTask(t2) => ENABLED LoopBegin(t2)

\* C22: a notification with scheduled_at set is never dispatched early, and
\* it is dispatched only by a schedule-sweep run that selected it PENDING
\* with scheduled_at <= now: every channel call for it is made by a
\* schedule-sweep run at a time that is not before scheduled_at.
ScheduledOnlyBySweep ==
    [][\A t \in TaskIds :
          (CallStep(t) /\ Row(t).scheduled_at # NULL) =>
             /\ Row(t).scheduled_at <= now
             /\ tasks[t].kind = "scheduled"]_vars

\* C22 as amended: no channel call for a notification with scheduled_at set
\* is made before scheduled_at, and none by a create call; a schedule-sweep
\* run selects exactly the PENDING rows with scheduled_at <= now, and the
\* channel calls for such a notification are made by a schedule-sweep run
\* that selected it PENDING or, after a failed attempt, by a retry-sweep run
\* that selected it FAILED.
ScheduledNeverEarly ==
    [][/\ \A t \in TaskIds :
             (CallStep(t) /\ Row(t).scheduled_at # NULL) =>
                /\ Row(t).scheduled_at <= now
                /\ \/ tasks[t].kind = "scheduled" /\ tasks[t].cur.obj.status = "PENDING"
                   \/ tasks[t].kind = "retry" /\ tasks[t].cur.obj.status = "FAILED"
       /\ \A t \in TaskIds :
             (tasks[t].kind = "idle" /\ tasks'[t].kind = "scheduled") =>
                Loaded(tasks'[t]) =
                   {id \in NotifIds : /\ notifications[id].scheduled_at # NULL
                                      /\ notifications[id].scheduled_at <= now
                                      /\ notifications[id].status = "PENDING"}]_vars

\* a notification scheduled for a later time was dispatched by a
\* schedule-sweep run, failed, and is being dispatched by a retry-sweep run
ScheduledNeverEarlyWitness ==
    \E t \in TaskIds :
        /\ tasks[t].kind = "retry"
        /\ InFlight(t)
        /\ Row(t).scheduled_at # NULL
        /\ Row(t).scheduled_at > 0

\* C23: a retry-sweep run selects only rows that are FAILED with
\* retry_count < max_retries and next_retry_at <= now; hence a channel call
\* of a retry-sweep run is made only for a notification that is FAILED and
\* whose next_retry_at has been reached, never for one that is PENDING or
\* SENT.
RetryOnlyWhenDue ==
    [][/\ \A t \in TaskIds :
             (tasks[t].kind = "idle" /\ tasks'[t].kind = "retry") =>
                \A id \in Loaded(tasks'[t]) :
                   /\ notifications[id].status = "FAILED"
                   /\ notifications[id].retry_count < notifications[id].max_retries
                   /\ notifications[id].next_retry_at # NULL
                   /\ notifications[id].next_retry_at <= now
       /\ \A t \in TaskIds :
             (tasks[t].kind = "retry" /\ CallStep(t)) =>
                /\ Row(t).status = "FAILED"
                /\ Row(t).next_retry_at <= now]_vars

\* C24: a handshake without a credential, or with a credential the identity
\* check rejects, is refused and changes neither connected_users nor any
\* room; a session is entered into connected_users, and joined to rooms by
\* connect, only by a handshake whose credential is the valid token of the
\* user it is entered for.
RefusedConnectLeavesNoTrace ==
    [][/\ \A t \in TaskIds :
             (/\ tasks[t].kind = "idle"
              /\ tasks'[t].kind = "connect"
              /\ \A u \in Users : tasks'[t].arg.token # TokenOf(u)) =>
                /\ tasks'[t].pc = "done"
                /\ tasks'[t].result = "False"
                /\ connected_users' = connected_users
                /\ rooms' = rooms
       /\ \A sid \in Sids :
             (\/ connected_users'[sid] \notin {NoUser, connected_users[sid]}
              \/ (connected_users[sid] = NoUser /\ rooms'[sid] # rooms[sid])) =>
                \E t \in TaskIds, u \in Users :
                    /\ tasks[t].kind = "connect"
                    /\ tasks[t].arg.sid = sid
                    /\ tasks[t].arg.token = TokenOf(u)
                    /\ tasks[t].arg.user_id = u
                    /\ connected_users'[sid] \in {NoUser, u}]_vars

\* a handshake with a rejected credential has been refused while another
\* session is connected
RefusedConnectWitness ==
    \E t \in TaskIds :
        /\ tasks[t].kind = "connect"
        /\ tasks[t].pc = "done"
        /\ tasks[t].result = "False"
        /\ tasks[t].arg.token \in {"bad", "ghost"}
        /\ rooms[tasks[t].arg.sid] = {}
        /\ connected_users[tasks[t].arg.sid] = NoUser
        /\ \E sid \in Sids : connected_users[sid] # NoUser

\* C25: a send (direct or of a sweep) changes no is_read and no read_at and
\* changes no notification but the one it was given; mark_as_read changes
\* no retry_count, next_retry_at or sent_at and changes no notification
\* that is not owned by the calling user or not among the given ids; no
\* step removes a notification.
MutatorFrames ==
    [][/\ \A t \in TaskIds :
             Returns(t) =>
                \A id \in NotifIds :
                   /\ notifications'[id].is_read = notifications[id].is_read
                   /\ notifications'[id].read_at = notifications[id].read_at
                   /\ id # tasks[t].cur.id => notifications'[id] = notifications[id]
       /\ \A ids \in SUBSET NotifIds, u \in Users :
             mark_as_read(ids, u) =>
                \A id \in NotifIds :
                   /\ notifications'[id].retry_count = notifications[id].retry_count
                   /\ notifications'[id].next_retry_at = notifications[id].next_retry_at
                   /\ notifications'[id].sent_at = notifications[id].sent_at
                   /\ (notifications[id].user_id # u \/ id \notin ids) =>
                         notifications'[id] = notifications[id]
       /\ Len(notifications') >= Len(notifications)
       /\ \A id \in NotifIds : notifications'[id].user_id = notifications[id].user_id]_vars

\* of two notifications of different users one has been dispatched and
\* read, the other has been dispatched and is unread
MutatorFramesWitness ==
    \E id1, id2 \in NotifIds :
        /\ notifications[id1].user_id # notifications[id2].user_id
        /\ notifications[id1].is_read
        /\ notifications[id1].status # "PENDING"
        /\ ~notifications[id2].is_read
        /\ notifications[id2].status # "PENDING"

\* a call of send_notification is working on the notification, or the
\* notification shows the outcome of one
Handed(id) ==
    \/ \E t \in TaskIds : tasks[t].cur.id = id /\ Sending(t)
    \/ id \in NotifIds /\ notifications[id].status # "PENDING"
    \/ id \in NotifIds /\ notifications[id].retry_count > 0

\* C26: every notification a create call has committed is eventually handed
\* to send_notification at least once, also when the create call ended with
\* an error of an earlier send before it reached this notification.
EventuallyDispatched ==
    \A id \in 1..MaxBulkNotifs : (id \in NotifIds) ~> Handed(id)

\* C27: SENT is stable under the dispatcher: once a row is SENT, no step of a
\* direct send or of a sweep run (one working on a copy it loaded earlier
\* included) sets its status to FAILED or PENDING or raises its retry_count.
SentIsStable ==
    [][\A id \in NotifIds :
          notifications[id].status = "SENT" =>
             /\ notifications'[id].status = "SENT"
             /\ notifications'[id].retry_count = notifications[id].retry_count]_vars

\* the notification is SENT, or FAILED with its retries used up
Settled(id) ==
    /\ id \in NotifIds
    /\ \/ notifications[id].status = "SENT"
       \/ Terminal(id)

\* the last instant of the modelled time has come and the notification
\* waits for a later one: its schedule or its next retry lies beyond it
BeyondHorizon(id) ==
    /\ id \in NotifIds
    /\ now = MaxTicks * RetryPeriod
    /\ \/ /\ notifications[id].status = "PENDING"
          /\ notifications[id].scheduled_at > now
       \/ /\ notifications[id].status = "FAILED"
          /\ notifications[id].retry_count < notifications[id].max_retries
          /\ notifications[id].next_retry_at > now

\* C28: progress. With both sweeps running again and again and time
\* advancing, every notification that is scheduled or has had a first
\* dispatch attempt eventually is SENT, or FAILED with retry_count =
\* max_retries, whatever the gateway answers (or it waits for an instant
\* beyond the modelled time).
EventuallySettled ==
    \A id \in 1..MaxNotifs :
        (id \in NotifIds /\ (notifications[id].scheduled_at # NULL \/ Handed(id)))
            ~> (Settled(id) \/ BeyondHorizon(id))

\* C29: room membership respects identity and role: a session of the
\* registry is in the room user_<X> only if it authenticated as X, in the
\* room "admins" only if its role is admin or super_admin, and in the room
\* "super_admins" only if its role is super_admin.
RoomsRespectIdentity ==
    \A sid \in Sids :
        connected_users[sid] # NoUser =>
            /\ \A u \in Users :
                  UserRoom(u) \in rooms[sid] => connected_users[sid] = u
            /\ "admins" \in rooms[sid] =>
                  Role(connected_users[sid]) \in {"admin", "super_admin"}
            /\ "super_admins" \in rooms[sid] =>
                  Role(connected_users[sid]) = "super_admin"

\* C30: presence registry and room membership are consistent: outside a
\* connect or disconnect in progress, every session of connected_users is
\* in the global room "users" and in its own user room, and every session
\* with an admin role is in the room "admins".
PresenceMatchesRooms ==
    \A sid \in Sids :
        (connected_users[sid] # NoUser /\ ~SidBusy(sid)) =>
            AssignedRooms(connected_users[sid]) \subseteq rooms[sid]

====
